---- MODULE Spec2Model ----
(***************************************************************************)
(* Rate-limited sharded ingestion and merge pipeline of fund-tracker.      *)
(*                                                                         *)
(* The workflows under .github/workflows split a candidate ID list into    *)
(* chunks, run one fetch worker per chunk, upload one shard file per       *)
(* worker and fold the shard files into one store.  The fetch, merge,      *)
(* backfill and rate-limiter scripts the workflows call are not part of    *)
(* the source tree; their behaviour is taken from spec.md sections 3-5.    *)
(***************************************************************************)
EXTENDS Integers, Sequences, FiniteSets, TLC

\* ---------------------------------------------------------------- bounds
NumIDs == 3
MaxChunks == 3
MaxAttempts == 2
NumPayloads == 2
MaxCopies == 2
MaxExtraCopies == 1
MaxTotal == 7
BatchSize == 1
MaxCallsBound == 2
MaxWindow == 2
MaxTime == 6
AttemptCap == 2
MaxThreads == 2
NumCallers == 2
MaxGlobalCalls == 3
MaxLimit == 2
MaxJobCalls == 4
MaxCallerCalls == 3
MaxShardItems == 2
MaxBaseID == 2
MaxClicks == 2
MaxRunTotal == 2

IDs == 1..NumIDs
Payloads == 1..NumPayloads
NoLimit == 0
Modes == {"all", "only_missing", "retry_failed", "fresh"}

\* FetchOutcome: Success(payload) | Empty | Error
Outcomes ==
  [tag : {"Success"}, payload : Payloads]
    \cup [tag : {"Empty", "Error"}, payload : {0}]

\* The answers the remote API may give for an ID: any outcome kind; the
\* record of the first ID may also change its payload between fetches.
RemoteAnswers(id) ==
  {o \in Outcomes : o.tag = "Success" => (o.payload = 1 \/ id = 1)}

VARIABLES
  canonical_store,   \* ID -> last successful payload
  unresolved_index,  \* ID -> [kind, attempts]
  remote,            \* per ID, the answers the remote API may give
  phase,             \* "idle" | "fetching" | "merged" | "split_failed"
  manifest,          \* [mode, chunks, limit, input] of the current run
  shards,            \* sequence of shards, each a sequence of IDs
  partial_stores,    \* per shard: ID -> FetchOutcome
  delivered,         \* per shard, how many copies of its file the last merge found
  split_pc,          \* split job of a chunked workflow: "idle" | "split" | "failed"
  split_in,          \* its inputs [total, chunks]
  split_out,         \* its outputs [chunk_list, chunk_count]
  slices,            \* offset -> the index range the worker of that offset took
  split_limit,       \* inputs.limit of the chunked workflow, NoLimit when blank
  bf_pc,             \* backfill: "idle" | "running" | "interrupted" | "done"
  bf_range,          \* its date range [lo, hi]
  bf_page,           \* the next page of the listing to process
  progress,          \* Progress record [processed, total]
  bf_base,           \* CanonicalStore when the range was first started
  bf_resumed,        \* the current invocation re-runs an interrupted one
  max_calls,         \* RateLimiter configuration
  window_seconds,
  now,               \* clock, in seconds
  ledger,            \* persisted timestamps of recent calls
  rl_pc,             \* acquire(): "idle" | "sleeping"
  wake_at,           \* end of the current sleep
  acquired,          \* timestamps of all calls acquire() has let through
  thread_count,      \* FetchWorker: size of the pool of in-flight requests
  fw_pc,             \* per shard process: "running" | "done" | "aborted" | "cancelled"
  fw_items,          \* per shard: ID taken from the shard -> [tries, finished]
  fw_kind,           \* per shard: ID with an Error outcome -> "transient" | "fatal"
  global_max_calls,  \* the provider's limit the run divides among its shards
  c_max,             \* per caller of acquire(): max_calls of its RateLimiter
  c_file,            \* per caller: the ledger file its RateLimiter persists to
  c_ledger,          \* per ledger file: the persisted timestamps
  c_pc,              \* per caller: "idle" | "loaded" | "sleeping"
  c_local,           \* per caller: the ledger as loaded and pruned
  c_wake,            \* per caller: end of its current sleep
  c_acquired,        \* per caller: timestamps of the calls acquire() let through
  job_pc,            \* workflow job holding the ledger file: "none" | "running"
  cache_db,          \* the cache entry under key rate-limiter-db, <<>> when absent
  cache_hit,         \* the restore step of the running job found the entry
  g_next,            \* gated FetchWorker: index of the next WorkItem of the shard
  g_item,            \* per thread: the WorkItem in hand, 0 when none
  g_tries,           \* per thread: remote calls made for the WorkItem in hand
  g_calls,           \* per thread: timestamps of its remote calls
  o_base,            \* merge order study: the stores before the first merge call
  o_order,           \* the shards merged so far, in the order they were merged
  o_calls,           \* number of merge calls made
  u_page,            \* the dashboard.js loaded: "site" (assets/js) | "docs" (docs/assets/js)
  u_disabled,        \* per button: its disabled property
  u_dataset,         \* run-backfill carries data-start and data-end
  u_clicks,          \* number of clicks handled so far
  u_pending,         \* per button: the clicks whose dispatch requests are in flight
  u_polls,           \* the clicks whose pollBackfillStatus loop is running
  u_shown,           \* the progress text on display, <<>> when none
  u_run_of,          \* click -> the backfill run its dispatch started, 0 when none
  u_announced,       \* "Backfill complete!" alerts: [click, run of the record read]
  s_status,          \* backfill_status.json as served: <<>> or <<[processed, total, run]>>
  s_queued,          \* backfill runs dispatched and not yet started
  s_runs,            \* number of backfill runs dispatched
  h_file,            \* Netlify function invoked: the file under netlify/functions
  h_event,           \* its event [httpMethod, body]
  h_token,           \* process.env holds a dispatch token
  h_pc,              \* "idle" | "received" | "calling" | "returned" | "threw"
  h_response,        \* statusCode of the response returned, 0 when none
  h_dispatches,      \* workflow dispatch requests sent to GitHub
  h_github           \* outcome of the call to GitHub, "none" before it

store_vars == <<canonical_store, unresolved_index>>
run_vars == <<remote, phase, manifest, shards, partial_stores, delivered>>
split_vars == <<split_pc, split_in, split_out, slices, split_limit>>

bf_vars == <<bf_pc, bf_range, bf_page, progress, bf_base, bf_resumed>>
rl_vars == <<max_calls, window_seconds, now, ledger, rl_pc, wake_at, acquired>>

fw_vars == <<thread_count, fw_pc, fw_items, fw_kind>>
mp_vars == <<global_max_calls, c_max, c_file, c_ledger, c_pc, c_local, c_wake, c_acquired>>
job_vars == <<job_pc, cache_db, cache_hit>>
gw_vars == <<g_next, g_item, g_tries, g_calls>>
ord_vars == <<o_base, o_order, o_calls>>
dash_vars == <<u_page, u_disabled, u_dataset, u_clicks, u_pending, u_polls, u_shown,
               u_run_of, u_announced, s_status, s_queued, s_runs>>
fn_vars == <<h_file, h_event, h_token, h_pc, h_response, h_dispatches, h_github>>
ext_vars == <<gw_vars, ord_vars, dash_vars, fn_vars>>

vars == <<store_vars, run_vars, split_vars, bf_vars, rl_vars, fw_vars, mp_vars,
          job_vars, ext_vars>>

\* ----------------------------------------------------------- helpers
Min(a, b) == IF a <= b THEN a ELSE b

EmptyMap == [x \in {} |-> 0]

RECURSIVE SortedSeq(_)
SortedSeq(S) ==
  IF S = {} THEN <<>>
  ELSE LET m == CHOOSE x \in S : \A y \in S : x <= y
       IN <<m>> \o SortedSeq(S \ {m})

Range(s) == {s[i] : i \in DOMAIN s}

\* --------------------------------------------------------- Partitioner
\* A selection in which only only_missing looks at the CanonicalStore.
Filter_all_unfiltered(ids, mode, canonical, unresolved) ==
  CASE mode = "fresh"        -> ids
    [] mode = "all"          -> ids
    [] mode = "only_missing" -> SelectSeq(ids, LAMBDA id : id \notin DOMAIN canonical)
    [] mode = "retry_failed" -> SelectSeq(ids, LAMBDA id : id \in DOMAIN unresolved)

\* Selection by mode (spec 4.2).
Filter(ids, mode, canonical, unresolved) ==
  CASE mode = "fresh"        -> ids
    [] mode = "all"          -> SelectSeq(ids, LAMBDA id : id \notin DOMAIN canonical)
    [] mode = "only_missing" -> SelectSeq(ids, LAMBDA id : id \notin DOMAIN canonical)
    [] mode = "retry_failed" -> SelectSeq(ids, LAMBDA id : id \in DOMAIN unresolved)

\* limit truncates the candidate list, keeping its order (spec 4.2).
ApplyLimit(cand, limit) ==
  IF limit = NoLimit THEN cand ELSE SubSeq(cand, 1, Min(limit, Len(cand)))

\* size=math.ceil(total/n)
ChunkSize(total, n) == (total + n - 1) \div n

\* list(range(0,total,size)): the chunk start offsets.  range() raises on a
\* zero step, which is the case total = 0; callers check SplitFails first.
SplitFails(total, n) == ChunkSize(total, n) = 0

\* range(0,total-1,size): the stop of the range is one short.
chunk_list_short(total, n) ==
  LET size == ChunkSize(total, n)
      m == (total - 1 + size - 1) \div size
  IN [k \in 1..m |-> (k - 1) * size]

chunk_list(total, n) ==
  LET size == ChunkSize(total, n)
      m == (total + size - 1) \div size
  IN [k \in 1..m |-> (k - 1) * size]

chunk_count(total, n) == Len(chunk_list(total, n))

\* The slice one worker takes for its --offset: the block up to the next
\* chunk start.
ChunkSlice(cand, offset, size) ==
  SubSeq(cand, offset + 1, Min(offset + size, Len(cand)))

partition(cand, n) ==
  LET total == Len(cand)
      offs == chunk_list(total, n)
  IN [k \in DOMAIN offs |-> ChunkSlice(cand, offs[k], ChunkSize(total, n))]

Candidates(m) ==
  ApplyLimit(Filter(m.input, m.mode, canonical_store, unresolved_index), m.limit)

\* Candidate ID lists handed to a run: the master list or its tail.
Inputs == {SortedSeq(IDs), SortedSeq(IDs \ {1})}

Manifests ==
  [mode : Modes, chunks : 1..MaxChunks, limit : {NoLimit}, input : Inputs]

NoManifest == [mode |-> "all", chunks |-> 1, limit |-> NoLimit, input |-> <<>>]

StartRun(m) ==
  /\ phase = "idle"
  /\ bf_pc # "running"
  /\ manifest' = m
  /\ LET cand == Candidates(m)
     IN IF SplitFails(Len(cand), m.chunks)
        THEN /\ phase' = "split_failed"
             /\ shards' = <<>>
             /\ partial_stores' = <<>>
        ELSE /\ phase' = "fetching"
             /\ shards' = partition(cand, m.chunks)
             /\ partial_stores' = [k \in 1..chunk_count(Len(cand), m.chunks) |-> EmptyMap]
  /\ UNCHANGED <<canonical_store, unresolved_index, remote, delivered>>
  /\ UNCHANGED <<split_vars, bf_vars, rl_vars>>
  /\ UNCHANGED <<fw_vars, mp_vars, job_vars, ext_vars>>

\* --------------------------------------------------------- FetchWorker
\* One WorkItem of shard k is fetched and its outcome recorded (spec 4.3).
Fetch(k, id, o) ==
  /\ phase = "fetching"
  /\ o \in remote[id]
  /\ k \in DOMAIN shards
  /\ id \in Range(shards[k])
  /\ id \notin DOMAIN partial_stores[k]
  /\ partial_stores' =
       [partial_stores EXCEPT ![k] =
          [x \in DOMAIN @ \cup {id} |-> IF x = id THEN o ELSE @[x]]]
  /\ UNCHANGED <<canonical_store, unresolved_index, remote, phase, manifest,
                 shards, delivered>>
  /\ UNCHANGED <<split_vars, bf_vars, rl_vars>>
  /\ UNCHANGED <<fw_vars, mp_vars, job_vars, ext_vars>>

\* -------------------------------------------------------------- Merger
\* combined = json.load(open(shard)): the shard file replaces combined.
combined_replace(combined, shard) == shard

\* An update that drops an ID found in both combined and the shard file.
combined_drop_repeated(combined, shard) ==
  [id \in (DOMAIN combined \cup DOMAIN shard) \ (DOMAIN combined \cap DOMAIN shard) |->
     IF id \in DOMAIN shard THEN shard[id] ELSE combined[id]]

\* combined.update(json.load(open(shard))): entries of the shard file replace
\* entries already in combined under the same ID.
combined_update(combined, shard) ==
  [id \in DOMAIN combined \cup DOMAIN shard |->
     IF id \in DOMAIN shard THEN shard[id] ELSE combined[id]]

\* combined = {}; for shard in glob.glob(...): combined.update(...)
RECURSIVE MergeMainShards(_)
MergeMainShards(files) ==
  IF files = <<>> THEN EmptyMap
  ELSE combined_update(MergeMainShards(SubSeq(files, 1, Len(files) - 1)),
                       files[Len(files)])

\* The shard files the merge step finds: every shard of the run at least
\* once and at most MaxCopies times (at-least-once delivery of artifacts).
Copies(c) == LET S == {<<k, j>> : k \in DOMAIN c, j \in 1..MaxCopies}
             IN Cardinality({x \in S : x[2] <= c[x[1]]})

Deliveries(n) ==
  {c \in [1..n -> 1..MaxCopies] : Copies(c) <= n + MaxExtraCopies}

\* The orders in which glob may yield the files of delivery c.
GlobOrders(c) ==
  {d \in [1..Copies(c) -> DOMAIN c] :
     \A k \in DOMAIN c : Cardinality({i \in DOMAIN d : d[i] = k}) = c[k]}

Files(d) == [i \in DOMAIN d |-> partial_stores[d[i]]]

SuccessIDs(combined) == {id \in DOMAIN combined : combined[id].tag = "Success"}
FailedIDs(combined) == {id \in DOMAIN combined : combined[id].tag # "Success"}

\* An upsert that also writes the entries of failed fetches.
UpsertCanonical_all(canonical, combined) ==
  [id \in DOMAIN canonical \cup DOMAIN combined |->
     IF id \in DOMAIN combined THEN combined[id].payload ELSE canonical[id]]

\* Success -> upsert payload into CanonicalStore (spec 4.4).
UpsertCanonical(canonical, combined) ==
  [id \in DOMAIN canonical \cup SuccessIDs(combined) |->
     IF id \in SuccessIDs(combined) THEN combined[id].payload ELSE canonical[id]]

PriorAttempts(unresolved, id) ==
  IF id \in DOMAIN unresolved THEN unresolved[id].attempts ELSE 0

\* An upsert that keeps only the IDs of the merge call at hand.
UpsertUnresolved_this_call(unresolved, combined) ==
  [id \in FailedIDs(combined) |->
     [kind |-> combined[id].tag, attempts |-> PriorAttempts(unresolved, id) + 1]]

\* Success -> remove from UnresolvedIndex; Empty or Error -> upsert with the
\* outcome kind and the attempt counter incremented (spec 4.4).
UpsertUnresolved(unresolved, combined) ==
  [id \in (DOMAIN unresolved \ SuccessIDs(combined)) \cup FailedIDs(combined) |->
     IF id \in FailedIDs(combined)
     THEN [kind |-> combined[id].tag, attempts |-> PriorAttempts(unresolved, id) + 1]
     ELSE unresolved[id]]

ShardsDone ==
  \A k \in DOMAIN shards : DOMAIN partial_stores[k] = Range(shards[k])

AttemptsBelowCap(combined) ==
  \A id \in FailedIDs(combined) : PriorAttempts(unresolved_index, id) < MaxAttempts

MergeStores(c, d) ==
  LET combined == MergeMainShards(Files(d))
  IN /\ AttemptsBelowCap(combined)
     /\ canonical_store' = UpsertCanonical(canonical_store, combined)
     /\ unresolved_index' = UpsertUnresolved(unresolved_index, combined)
     /\ delivered' = c

\* The merge job of a run: starts once every fetch job has ended.
Merge(c, d) ==
  /\ phase = "fetching"
  /\ ShardsDone
  /\ c \in Deliveries(Len(shards))
  /\ d \in GlobOrders(c)
  /\ MergeStores(c, d)
  /\ phase' = "merged"
  /\ UNCHANGED <<remote, manifest, shards, partial_stores>>
  /\ UNCHANGED <<split_vars, bf_vars, rl_vars>>
  /\ UNCHANGED <<fw_vars, mp_vars, job_vars, ext_vars>>

\* "Merge FCA CF From Artifacts" runs on completion of the fetch workflow and
\* merges the artifacts of that run once more.
ReMerge(c, d) ==
  /\ phase = "merged"
  /\ c \in Deliveries(Len(shards))
  /\ d \in GlobOrders(c)
  /\ MergeStores(c, d)
  /\ UNCHANGED <<remote, phase, manifest, shards, partial_stores>>
  /\ UNCHANGED <<split_vars, bf_vars, rl_vars>>
  /\ UNCHANGED <<fw_vars, mp_vars, job_vars, ext_vars>>

\* One merge call over all the PartialStores of the run, the files taken in
\* the order d.
MergeInOneCall(d) ==
  /\ o_order = <<>>
  /\ d \in GlobOrders([k \in DOMAIN partial_stores |-> 1])
  /\ MergeStores([k \in DOMAIN partial_stores |-> 1], d)
  /\ o_order' = d
  /\ o_calls' = 1
  /\ UNCHANGED <<o_base, remote, phase, manifest, shards, partial_stores>>
  /\ UNCHANGED <<split_vars, bf_vars, rl_vars, fw_vars, mp_vars, job_vars, gw_vars,
                 dash_vars, fn_vars>>

\* A merge call of its own for the PartialStore of shard k.
MergeSeparately(k) ==
  /\ k \in DOMAIN partial_stores
  /\ k \notin Range(o_order)
  /\ o_calls = Len(o_order)
  /\ LET combined == MergeMainShards(<<partial_stores[k]>>)
     IN /\ canonical_store' = UpsertCanonical(canonical_store, combined)
        /\ unresolved_index' = UpsertUnresolved(unresolved_index, combined)
  /\ delivered' = [delivered EXCEPT ![k] = 1]
  /\ o_order' = Append(o_order, k)
  /\ o_calls' = o_calls + 1
  /\ UNCHANGED <<o_base, remote, phase, manifest, shards, partial_stores>>
  /\ UNCHANGED <<split_vars, bf_vars, rl_vars, fw_vars, mp_vars, job_vars, gw_vars,
                 dash_vars, fn_vars>>

\* The run is over (merged, failed in the split job, or cancelled); its
\* artifacts are gone with it.
EndRun ==
  /\ phase \in {"fetching", "merged", "split_failed"}
  /\ bf_pc # "running"
  /\ phase' = "idle"
  /\ manifest' = NoManifest
  /\ shards' = <<>>
  /\ partial_stores' = <<>>
  /\ delivered' = <<>>
  /\ UNCHANGED <<canonical_store, unresolved_index, remote>>
  /\ UNCHANGED <<split_vars, bf_vars, rl_vars>>
  /\ UNCHANGED <<fw_vars, mp_vars, job_vars, ext_vars>>

\* ------------------------------------------- FetchWorker, call by call
\* What one call of the remote fetch API comes back with.
Responses == {"ok", "not_found", "transient", "malformed", "auth"}

\* Outcome classification (spec 4.3).
Classify(resp) ==
  CASE resp = "ok"        -> [tag |-> "Success", payload |-> 1]
    [] resp = "not_found" -> [tag |-> "Empty", payload |-> 0]
    [] OTHER              -> [tag |-> "Error", payload |-> 0]

ErrorKind(resp) == IF resp = "transient" THEN "transient" ELSE "fatal"

Put(f, x, v) == [y \in DOMAIN f \cup {x} |-> IF y = x THEN v ELSE f[y]]

\* A writer that leaves Error outcomes out of the PartialStore.
Recorded_without_errors(store, id, o) ==
  IF o.tag = "Error" THEN store ELSE Put(store, id, o)

\* PartialStore writer: one outcome per WorkItem processed, even Errors.
Recorded(store, id, o) == Put(store, id, o)

\* The shard's process starts (a job of the fetch matrix).
WorkerStart(k) ==
  /\ phase = "fetching"
  /\ k \in DOMAIN shards
  /\ k \notin DOMAIN fw_pc
  /\ fw_pc' = Put(fw_pc, k, "running")
  /\ fw_items' = Put(fw_items, k, EmptyMap)
  /\ fw_kind' = Put(fw_kind, k, EmptyMap)
  /\ UNCHANGED <<thread_count, store_vars, run_vars, split_vars, bf_vars, rl_vars,
                 mp_vars, job_vars, ext_vars>>

InFlight(k) == {id \in DOMAIN fw_items[k] : ~fw_items[k][id].finished}

\* The WorkItems of shard k not yet handed to the pool, in shard order.
NotTaken(k) == SelectSeq(shards[k], LAMBDA id : id \notin DOMAIN fw_items[k])

TriesOf(k, id) == IF id \in DOMAIN fw_items[k] THEN fw_items[k][id].tries ELSE 0

\* A cap that lets one more attempt through.
Exhausted_late(tries) == tries > AttemptCap

\* A transient failure is retried until the attempt cap is used up.
Exhausted(tries) == tries >= AttemptCap

\* One call of the remote API for WorkItem id of shard k, answered by resp:
\* the next WorkItem when the pool has a free thread, or a retry of one in
\* flight.
WorkerCall(k, id, resp) ==
  /\ phase = "fetching"
  /\ k \in DOMAIN fw_pc
  /\ fw_pc[k] = "running"
  /\ \/ id \in InFlight(k)
     \/ /\ Cardinality(InFlight(k)) < thread_count
        /\ NotTaken(k) # <<>>
        /\ id = Head(NotTaken(k))
  /\ LET tries == TriesOf(k, id) + 1
         retry == resp = "transient" /\ ~Exhausted(tries)
     IN /\ fw_items' = [fw_items EXCEPT ![k] =
                          Put(@, id, [tries |-> tries, finished |-> ~retry])]
        /\ partial_stores' =
             IF retry THEN partial_stores
             ELSE [partial_stores EXCEPT ![k] = Recorded(@, id, Classify(resp))]
        /\ fw_kind' =
             IF ~retry /\ Classify(resp).tag = "Error"
             THEN [fw_kind EXCEPT ![k] = Put(@, id, ErrorKind(resp))]
             ELSE fw_kind
        /\ fw_pc' = IF resp = "auth" THEN [fw_pc EXCEPT ![k] = "aborted"] ELSE fw_pc
  /\ UNCHANGED <<thread_count, canonical_store, unresolved_index, remote, phase,
                 manifest, shards, delivered>>
  /\ UNCHANGED <<split_vars, bf_vars, rl_vars, mp_vars, job_vars, ext_vars>>

\* FetchWorker.run returns: every WorkItem of the shard has been processed.
WorkerDone(k) ==
  /\ phase = "fetching"
  /\ k \in DOMAIN fw_pc
  /\ fw_pc[k] = "running"
  /\ NotTaken(k) = <<>>
  /\ InFlight(k) = {}
  /\ fw_pc' = [fw_pc EXCEPT ![k] = "done"]
  /\ UNCHANGED <<thread_count, fw_items, fw_kind, store_vars, run_vars, split_vars,
                 bf_vars, rl_vars, mp_vars, job_vars, ext_vars>>

\* A job of the fetch matrix that is queued or in progress.
StillToEnd(k) == IF k \in DOMAIN fw_pc THEN fw_pc[k] = "running" ELSE TRUE

\* strategy.matrix without fail-fast: false: when one job of the matrix has
\* failed, the jobs of the matrix still in progress or queued are cancelled.
\* A job that ended before the cancellation reached it keeps its result.
MatrixFailFast ==
  /\ phase = "fetching"
  /\ \E k \in DOMAIN fw_pc : fw_pc[k] = "aborted"
  /\ \E k \in DOMAIN shards : StillToEnd(k)
  /\ fw_pc' = [k \in DOMAIN shards |->
                IF StillToEnd(k) THEN "cancelled" ELSE fw_pc[k]]
  /\ fw_items' = [k \in DOMAIN shards |->
                   IF k \in DOMAIN fw_items THEN fw_items[k] ELSE EmptyMap]
  /\ fw_kind' = [k \in DOMAIN shards |->
                  IF k \in DOMAIN fw_kind THEN fw_kind[k] ELSE EmptyMap]
  /\ UNCHANGED <<thread_count, store_vars, run_vars, split_vars, bf_vars, rl_vars,
                 mp_vars, job_vars, ext_vars>>

\* needs: on one job of the fetch matrix only
AllWorkersDone_one ==
  \E k \in DOMAIN shards : k \in DOMAIN fw_pc /\ fw_pc[k] = "done"

AllWorkersDone ==
  \A k \in DOMAIN shards : k \in DOMAIN fw_pc /\ fw_pc[k] = "done"

\* merge (needs: fetch): the merge job starts when every job of the fetch
\* matrix has succeeded.
WorkerMerge(c, d) ==
  /\ AllWorkersDone
  /\ Merge(c, d)

\* ------------------------------------------------- split job (chunked)
\* set-chunks: TOTAL=$(jq 'length' ...); CHUNKS=inputs.chunks; the python
\* one-liner prints the chunk start offsets, or dies on range(0,0,0).
SplitJob(total, n) ==
  /\ split_pc = "idle"
  /\ split_in' = [total |-> total, chunks |-> n]
  /\ IF SplitFails(total, n)
     THEN /\ split_pc' = "failed"
          /\ split_out' = [chunk_list |-> <<>>, chunk_count |-> 0]
     ELSE /\ split_pc' = "split"
          /\ split_out' = [chunk_list |-> chunk_list(total, n),
                           chunk_count |-> chunk_count(total, n)]
  /\ slices' = EmptyMap
  /\ UNCHANGED <<split_limit, store_vars, run_vars, bf_vars, rl_vars>>
  /\ UNCHANGED <<fw_vars, mp_vars, job_vars, ext_vars>>

\* fetch matrix: the worker of chunk start `offset` takes its slice of the
\* candidate list 1..total; --offset $OFFSET $LIMIT hands every worker the
\* limit input ('Max FRNs per chunk').
TakeSlice(offset) ==
  /\ split_pc = "split"
  /\ offset \in Range(split_out.chunk_list)
  /\ offset \notin DOMAIN slices
  /\ slices' =
       [o \in DOMAIN slices \cup {offset} |->
          IF o = offset
          THEN ApplyLimit(ChunkSlice(SortedSeq(1..split_in.total), offset,
                                     ChunkSize(split_in.total, split_in.chunks)),
                          split_limit)
          ELSE slices[o]]
  /\ UNCHANGED <<split_pc, split_in, split_out, split_limit>>
  /\ UNCHANGED <<store_vars, run_vars, bf_vars, rl_vars>>
  /\ UNCHANGED <<fw_vars, mp_vars, job_vars, ext_vars>>

\* --------------------------------------------------- BackfillController
DateRanges == {r \in [lo : IDs, hi : IDs] : r.lo <= r.hi}

\* The listing endpoint filtered to the range, in listing order.
Listing(r) == SortedSeq({id \in IDs : r.lo <= id /\ id <= r.hi})

NumPages(r) == (Len(Listing(r)) + BatchSize - 1) \div BatchSize

\* A page that is one item short.
BatchOf_short(r, page) ==
  SubSeq(Listing(r), (page - 1) * BatchSize + 1,
         Min(page * BatchSize - 1, Len(Listing(r))))

BatchOf(r, page) ==
  SubSeq(Listing(r), (page - 1) * BatchSize + 1,
         Min(page * BatchSize, Len(Listing(r))))

\* total_count taken from the number of items on the first page
TotalCount_first_page(r) == Len(BatchOf(r, 1))

\* total_count as the listing endpoint reports it for the range
TotalCount(r) == Len(Listing(r))

\* backfill(start_date, end_date): a new invocation.  total_count comes from
\* the listing endpoint, processed_count starts at zero.
StartBackfill(r) ==
  /\ bf_pc \in {"idle", "interrupted", "done"}
  /\ phase = "idle"
  /\ bf_pc' = "running"
  /\ bf_range' = r
  /\ bf_page' = 1
  /\ progress' = [processed |-> 0, total |-> TotalCount(r)]
  /\ IF bf_pc = "interrupted" /\ bf_range = r
     THEN bf_resumed' = TRUE /\ bf_base' = bf_base
     ELSE bf_resumed' = FALSE /\ bf_base' = canonical_store
  /\ UNCHANGED <<store_vars, run_vars, split_vars, rl_vars>>
  /\ UNCHANGED <<fw_vars, mp_vars, job_vars, ext_vars>>

\* The next page of the listing becomes a batch for the FetchWorker.
NextBatch ==
  /\ bf_pc = "running"
  /\ phase = "idle"
  /\ bf_page <= NumPages(bf_range)
  /\ phase' = "fetching"
  /\ manifest' = [mode |-> "backfill", chunks |-> 1, limit |-> NoLimit,
                  input |-> BatchOf(bf_range, bf_page)]
  /\ shards' = <<BatchOf(bf_range, bf_page)>>
  /\ partial_stores' = <<EmptyMap>>
  /\ UNCHANGED <<store_vars, remote, delivered, split_vars, bf_vars, rl_vars>>
  /\ UNCHANGED <<fw_vars, mp_vars, job_vars, ext_vars>>

\* After the batch is merged the Progress record is written.
BatchDone ==
  /\ bf_pc = "running"
  /\ phase = "merged"
  /\ progress' = [progress EXCEPT !.processed = @ + Len(shards[1])]
  /\ bf_page' = bf_page + 1
  /\ bf_pc' = IF bf_page + 1 > NumPages(bf_range) THEN "done" ELSE "running"
  /\ phase' = "idle"
  /\ manifest' = NoManifest
  /\ shards' = <<>>
  /\ partial_stores' = <<>>
  /\ delivered' = <<>>
  /\ UNCHANGED <<store_vars, remote, split_vars, bf_range, bf_base, bf_resumed, rl_vars>>
  /\ UNCHANGED <<fw_vars, mp_vars, job_vars, ext_vars>>

\* The backfill process is killed, wherever it is in its current batch.
Interrupt ==
  /\ bf_pc = "running"
  /\ bf_pc' = "interrupted"
  /\ phase' = "idle"
  /\ manifest' = NoManifest
  /\ shards' = <<>>
  /\ partial_stores' = <<>>
  /\ delivered' = <<>>
  /\ UNCHANGED <<store_vars, remote, split_vars, bf_range, bf_page, progress,
                 bf_base, bf_resumed, rl_vars>>
  /\ UNCHANGED <<fw_vars, mp_vars, job_vars, ext_vars>>

\* --------------------------------------------------------- RateLimiter
\* discard timestamps older than now - window_seconds, now included
Prune_inclusive(l, t, w) == SelectSeq(l, LAMBDA x : x > t - w)

\* discard timestamps older than now - window_seconds (spec 4.1)
Prune(l, t, w) == SelectSeq(l, LAMBDA x : x >= t - w)

\* acquire(): one pass of the check, on entry or after a sleep.
Acquire ==
  /\ rl_pc = "idle" \/ (rl_pc = "sleeping" /\ now >= wake_at)
  /\ LET kept == Prune(ledger, now, window_seconds)
     IN IF Len(kept) < max_calls
        THEN /\ ledger' = Append(kept, now)
             /\ acquired' = Append(acquired, now)
             /\ rl_pc' = "idle"
             /\ wake_at' = 0
        ELSE /\ ledger' = kept
             /\ acquired' = acquired
             /\ rl_pc' = "sleeping"
             /\ wake_at' = kept[1] + window_seconds + 1
  /\ UNCHANGED <<max_calls, window_seconds, now>>
  /\ UNCHANGED <<store_vars, run_vars, split_vars, bf_vars>>
  /\ UNCHANGED <<fw_vars, mp_vars, job_vars, ext_vars>>

Tick ==
  /\ now < MaxTime
  /\ now' = now + 1
  /\ UNCHANGED <<max_calls, window_seconds, ledger, rl_pc, wake_at, acquired>>
  /\ UNCHANGED <<store_vars, run_vars, split_vars, bf_vars>>
  /\ UNCHANGED <<fw_vars, mp_vars, job_vars, ext_vars>>

\* ------------------------------------- RateLimiter, several callers
\* RL_MAX_CALLS=$((50 / COUNT)) rounded up instead of down
PerShardBudget_ceil(global, count) == (global + count - 1) \div count

\* RL_MAX_CALLS=$((50 / COUNT)): integer division of the provider's limit by
\* the number of chunks.
PerShardBudget(global, count) == global \div count

\* acquire(), first step: load the ledger file and discard old timestamps.
CallerLoad(p) ==
  /\ p \in DOMAIN c_pc
  /\ c_pc[p] = "idle" \/ (c_pc[p] = "sleeping" /\ now >= c_wake[p])
  /\ c_local' = [c_local EXCEPT ![p] = Prune(c_ledger[c_file[p]], now, window_seconds)]
  /\ c_pc' = [c_pc EXCEPT ![p] = "loaded"]
  /\ UNCHANGED <<global_max_calls, c_max, c_file, c_ledger, c_wake, c_acquired>>
  /\ UNCHANGED <<store_vars, run_vars, split_vars, bf_vars, rl_vars, fw_vars, job_vars, ext_vars>>

\* acquire(), second step: with room in the loaded ledger, append now, persist
\* and return; otherwise sleep until the oldest retained timestamp has left
\* the window.  A caller whose budget is zero has no timestamp to wait for.
CallerCheck(p) ==
  /\ p \in DOMAIN c_pc
  /\ c_pc[p] = "loaded"
  /\ IF Len(c_local[p]) < c_max[p]
     THEN /\ c_ledger' = [c_ledger EXCEPT ![c_file[p]] = Append(c_local[p], now)]
          /\ c_acquired' = [c_acquired EXCEPT ![p] = Append(@, now)]
          /\ c_pc' = [c_pc EXCEPT ![p] = "idle"]
          /\ c_wake' = c_wake
     ELSE /\ c_ledger' = c_ledger
          /\ c_acquired' = c_acquired
          /\ IF c_local[p] = <<>>
             THEN /\ c_pc' = [c_pc EXCEPT ![p] = "stuck"]
                  /\ c_wake' = c_wake
             ELSE /\ c_pc' = [c_pc EXCEPT ![p] = "sleeping"]
                  /\ c_wake' = [c_wake EXCEPT ![p] = c_local[p][1] + window_seconds + 1]
  /\ UNCHANGED <<global_max_calls, c_max, c_file, c_local>>
  /\ UNCHANGED <<store_vars, run_vars, split_vars, bf_vars, rl_vars, fw_vars, job_vars, ext_vars>>

\* --------------------------- FetchWorker threads gated by acquire()
\* The thread holds a grant: acquire() has returned and the remote call it
\* was made for is still to come.
Granted(p) == Len(c_acquired[p]) > Len(g_calls[p])

\* A free thread of the pool takes the next WorkItem of the shard.
GatedTake(p) ==
  /\ p \in DOMAIN g_item
  /\ g_item[p] = 0
  /\ g_next <= MaxShardItems
  /\ g_item' = [g_item EXCEPT ![p] = g_next]
  /\ g_tries' = [g_tries EXCEPT ![p] = 0]
  /\ g_next' = g_next + 1
  /\ UNCHANGED g_calls
  /\ UNCHANGED <<store_vars, run_vars, split_vars, bf_vars, rl_vars, fw_vars,
                 mp_vars, job_vars, ord_vars, dash_vars, fn_vars>>

\* "call RateLimiter.acquire(), then perform the remote fetch": the thread
\* enters acquire() for the call it is about to make.
GatedLoad(p) ==
  /\ p \in DOMAIN g_item
  /\ g_item[p] # 0
  /\ ~Granted(p)
  /\ CallerLoad(p)

GatedCheck(p) == CallerCheck(p)

\* The remote fetch, made at the return of acquire().  A transient failure
\* below the attempt cap keeps the WorkItem in hand for a retry, which goes
\* through acquire() again.
RemoteCall(p, resp) ==
  /\ p \in DOMAIN g_item
  /\ g_item[p] # 0
  /\ Granted(p)
  /\ g_calls' = [g_calls EXCEPT ![p] = Append(@, now)]
  /\ LET tries == g_tries[p] + 1
         retry == resp = "transient" /\ ~Exhausted(tries)
     IN /\ g_tries' = [g_tries EXCEPT ![p] = tries]
        /\ g_item' = IF retry THEN g_item ELSE [g_item EXCEPT ![p] = 0]
  /\ UNCHANGED g_next
  /\ UNCHANGED <<store_vars, run_vars, split_vars, bf_vars, rl_vars, fw_vars,
                 mp_vars, job_vars, ord_vars, dash_vars, fn_vars>>

\* The clock moves on between the calls; a granted call is made at once.
GatedTick ==
  /\ \A p \in DOMAIN g_item : ~Granted(p)
  /\ Tick

\* ------------------------------------------------ dashboard buttons
Buttons == {"run-backfill", "run-fetch-directors"}

\* The click listeners dashboard.js registers on a button: the docs script
\* holds two $(document).ready blocks and each adds a listener to
\* run-backfill; the site page has no Fetch Directors button.
Listeners(page, b) ==
  IF b = "run-backfill" THEN (IF page = "docs" THEN 2 ELSE 1)
  ELSE (IF page = "docs" THEN 1 ELSE 0)

\* <button id="run-backfill" disabled> on the site page only.
InitiallyDisabled(page, b) == page = "site" /\ b = "run-backfill"

RECURSIVE Repeat(_, _)
Repeat(x, n) == IF n = 0 THEN <<>> ELSE <<x>> \o Repeat(x, n - 1)

RemoveAt(q, i) == SubSeq(q, 1, i - 1) \o SubSeq(q, i + 1, Len(q))

RestUnchanged ==
  UNCHANGED <<store_vars, run_vars, split_vars, bf_vars, rl_vars, fw_vars, mp_vars,
              job_vars, gw_vars, ord_vars, fn_vars>>

\* flatpickr onChange: two dates picked enable the button and set its
\* data-start and data-end; otherwise the button is disabled and they go.
PickRange(complete) ==
  /\ u_disabled' = [u_disabled EXCEPT !["run-backfill"] = ~complete]
  /\ u_dataset' = complete
  /\ UNCHANGED <<u_page, u_clicks, u_pending, u_polls, u_shown, u_run_of, u_announced,
                 s_status, s_queued, s_runs>>
  /\ RestUnchanged

\* Click on Run Historical Backfill: without dates the listener returns;
\* with dates every listener posts to the backfill function, and the site
\* script shows the progress bar and starts pollBackfillStatus at once.
ClickBackfill ==
  /\ ~u_disabled["run-backfill"]
  /\ u_clicks < MaxClicks
  /\ LET c == u_clicks + 1
     IN /\ u_clicks' = c
        /\ u_run_of' = Put(u_run_of, c, 0)
        /\ IF u_dataset
           THEN /\ u_pending' = [u_pending EXCEPT !["run-backfill"] =
                                   @ \o Repeat(c, Listeners(u_page, "run-backfill"))]
                /\ u_polls' = IF u_page = "site" THEN u_polls \cup {c} ELSE u_polls
           ELSE UNCHANGED <<u_pending, u_polls>>
  /\ UNCHANGED <<u_page, u_disabled, u_dataset, u_shown, u_announced, s_status,
                 s_queued, s_runs>>
  /\ RestUnchanged

\* Click on Fetch Directors Now: the listener disables the button, then
\* posts to the trigger-fetch-directors function.
ClickDirectors ==
  /\ Listeners(u_page, "run-fetch-directors") > 0
  /\ ~u_disabled["run-fetch-directors"]
  /\ u_clicks < MaxClicks
  /\ LET c == u_clicks + 1
     IN /\ u_clicks' = c
        /\ u_run_of' = Put(u_run_of, c, 0)
        /\ u_pending' = [u_pending EXCEPT !["run-fetch-directors"] =
                           @ \o Repeat(c, Listeners(u_page, "run-fetch-directors"))]
  /\ u_disabled' = [u_disabled EXCEPT !["run-fetch-directors"] = TRUE]
  /\ UNCHANGED <<u_page, u_dataset, u_polls, u_shown, u_announced, s_status, s_queued,
                 s_runs>>
  /\ RestUnchanged

\* The response to the i-th pending request of button b arrives.  Backfill:
\* r.ok -> alert, btn.disabled = true (the dispatched run is queued); else
\* the error alert.  Fetch Directors: finally { btn.disabled = false }.
Respond(b, i, ok) ==
  /\ i \in DOMAIN u_pending[b]
  /\ u_pending' = [u_pending EXCEPT ![b] = RemoveAt(@, i)]
  /\ IF b = "run-backfill"
     THEN IF ok
          THEN /\ u_disabled' = [u_disabled EXCEPT ![b] = TRUE]
               /\ s_runs' = s_runs + 1
               /\ s_queued' = Append(s_queued, s_runs + 1)
               /\ u_run_of' = [u_run_of EXCEPT ![u_pending[b][i]] = s_runs + 1]
          ELSE UNCHANGED <<u_disabled, s_runs, s_queued, u_run_of>>
     ELSE /\ u_disabled' = [u_disabled EXCEPT ![b] = FALSE]
          /\ UNCHANGED <<s_runs, s_queued, u_run_of>>
  /\ UNCHANGED <<u_page, u_dataset, u_clicks, u_polls, u_shown, u_announced, s_status>>
  /\ RestUnchanged

\* A dispatched backfill run starts and creates its Progress record; the
\* record of the run before it stays until then.
RunBegin(total) ==
  /\ s_queued # <<>>
  /\ IF s_status = <<>> THEN TRUE ELSE s_status[1].processed = s_status[1].total
  /\ s_status' = <<[processed |-> 0, total |-> total, run |-> Head(s_queued)]>>
  /\ s_queued' = Tail(s_queued)
  /\ UNCHANGED <<u_page, u_disabled, u_dataset, u_clicks, u_pending, u_polls, u_shown,
                 u_run_of, u_announced, s_runs>>
  /\ RestUnchanged

\* The running backfill has processed one more batch.
RunBatch ==
  /\ s_status # <<>>
  /\ s_status[1].processed < s_status[1].total
  /\ s_status' = <<[s_status[1] EXCEPT !.processed = @ + 1]>>
  /\ UNCHANGED <<u_page, u_disabled, u_dataset, u_clicks, u_pending, u_polls, u_shown,
                 u_run_of, u_announced, s_queued, s_runs>>
  /\ RestUnchanged

\* pollBackfillStatus of click c reads backfill_status.json: no file ->
\* retry later; processed < total -> show it and poll again; otherwise show
\* it, alert "Backfill complete!" and enable the button.
PollBackfillStatus(c) ==
  /\ c \in u_polls
  /\ s_status # <<>>
  /\ u_shown' = <<s_status[1].processed, s_status[1].total>>
  /\ IF s_status[1].processed < s_status[1].total
     THEN UNCHANGED <<u_polls, u_announced, u_disabled>>
     ELSE /\ u_polls' = u_polls \ {c}
          /\ u_announced' = u_announced \cup {[click |-> c, run |-> s_status[1].run]}
          /\ u_disabled' = [u_disabled EXCEPT !["run-backfill"] = FALSE]
  /\ UNCHANGED <<u_page, u_dataset, u_clicks, u_pending, u_run_of, s_status, s_queued,
                 s_runs>>
  /\ RestUnchanged

\* ------------------------------------------------ Netlify functions
Methods == {"OPTIONS", "GET", "POST"}

Dates == {"", "2024-01-01"}
Undefined == "undefined"

\* Request bodies, by the text sent: JSON objects with start_date and
\* end_date absent, empty or a date; the JSON texts null and 7; text that
\* is not JSON (empty, form-encoded); and no body at all (event.body null).
ObjectBodies ==
  [text : {"object"}, start_date : Dates \cup {Undefined}, end_date : Dates \cup {Undefined}]

OtherBodies ==
  [text : {"null", "7", "", "start_date=2024-01-01", "(no body)"},
   start_date : {Undefined}, end_date : {Undefined}]

Bodies == ObjectBodies \cup OtherBodies

\* JSON.parse(event.body): throws on text that is not JSON; a null body is
\* coerced to the text "null" and parses to null.
JSONParse(body) ==
  IF body.text = "object" THEN [ok |-> TRUE, kind |-> "object", value |-> body]
  ELSE IF body.text \in {"(no body)", "null"}
       THEN [ok |-> TRUE, kind |-> "null", value |-> body]
  ELSE IF body.text = "7" THEN [ok |-> TRUE, kind |-> "number", value |-> body]
  ELSE [ok |-> FALSE, kind |-> "none", value |-> body]

\* const { start_date, end_date } = payload: a TypeError for null, undefined
\* properties for a number.
Destructure(payload) ==
  IF payload.kind = "null" THEN [ok |-> FALSE, start_date |-> Undefined, end_date |-> Undefined]
  ELSE IF payload.kind = "object"
       THEN [ok |-> TRUE, start_date |-> payload.value.start_date,
             end_date |-> payload.value.end_date]
       ELSE [ok |-> TRUE, start_date |-> Undefined, end_date |-> Undefined]

\* !x for a string or undefined
Falsy(x) == x \in {Undefined, ""}

\* The handler a function file exports: a later assignment to
\* exports.handler replaces an earlier one.
HandlersOf(file) ==
  IF file = "backfill.js" THEN <<"backfill">>
  ELSE <<"fetch_directors", "backfill_variant">>

ExportedHandler(file) == HandlersOf(file)[Len(HandlersOf(file))]

\* What GitHub may answer to the dispatch request: 204 when it accepts it,
\* an error status, or no answer at all (fetch rejects).  A request with
\* "Bearer undefined" is not accepted.
GitHubOutcomes(token) ==
  IF token THEN {"accepted", "rejected", "network_error"}
  ELSE {"rejected", "network_error"}

RejectedStatus == 401

\* The handler up to its first await: the response it returns at once
\* (next = "returned"), the exception it throws ("threw"), or the dispatch
\* request it sends ("calling").
HandlerEntry(handler, event, token) ==
  LET payload == JSONParse(event.body)
      dates == Destructure(payload)
      Return(code) == [next |-> "returned", status |-> code]
      Throw == [next |-> "threw", status |-> 0]
      Call == [next |-> "calling", status |-> 0]
  IN IF handler = "fetch_directors"
     THEN IF event.httpMethod = "OPTIONS" THEN Return(204)
          ELSE IF event.httpMethod # "POST" THEN Return(405)
          ELSE IF ~token THEN Return(500)
          ELSE Call
     ELSE IF handler = "backfill" /\ event.httpMethod = "OPTIONS" THEN Return(204)
          ELSE IF event.httpMethod # "POST" THEN Return(405)
          ELSE IF ~payload.ok THEN Return(400)
          ELSE IF ~dates.ok THEN Throw
          ELSE IF Falsy(dates.start_date) \/ Falsy(dates.end_date) THEN Return(400)
          ELSE Call

\* The handler after the call to GitHub: fetch_directors catches a rejected
\* fetch and answers 500; the backfill handlers await fetch outside any try.
HandlerResume(handler, outcome) ==
  IF outcome = "accepted" THEN [next |-> "returned", status |-> 200]
  ELSE IF outcome = "rejected" THEN [next |-> "returned", status |-> RejectedStatus]
  ELSE IF handler = "fetch_directors" THEN [next |-> "returned", status |-> 500]
  ELSE [next |-> "threw", status |-> 0]

\* Netlify invokes the exported handler of the function file.
Invoke ==
  /\ h_pc = "received"
  /\ LET r == HandlerEntry(ExportedHandler(h_file), h_event, h_token)
     IN /\ h_pc' = r.next
        /\ h_response' = r.status
        /\ h_dispatches' = IF r.next = "calling" THEN h_dispatches + 1 ELSE h_dispatches
  /\ UNCHANGED <<h_file, h_event, h_token, h_github>>
  /\ UNCHANGED <<store_vars, run_vars, split_vars, bf_vars, rl_vars, fw_vars, mp_vars,
                 job_vars, gw_vars, ord_vars, dash_vars>>

\* The call to GitHub ends.
GitHubAnswers(outcome) ==
  /\ h_pc = "calling"
  /\ outcome \in GitHubOutcomes(h_token)
  /\ LET r == HandlerResume(ExportedHandler(h_file), outcome)
     IN /\ h_pc' = r.next
        /\ h_response' = r.status
  /\ h_github' = outcome
  /\ UNCHANGED <<h_file, h_event, h_token, h_dispatches>>
  /\ UNCHANGED <<store_vars, run_vars, split_vars, bf_vars, rl_vars, fw_vars, mp_vars,
                 job_vars, gw_vars, ord_vars, dash_vars>>

\* ------------------------------------------ ledger file across jobs
\* "Restore rate_limiter.db cache": actions/cache with the fixed key
\* rate-limiter-db puts the cached file on the fresh runner when an entry
\* exists; otherwise the job starts without a ledger file.
JobStart ==
  /\ job_pc = "none"
  /\ job_pc' = "running"
  /\ cache_hit' = (cache_db # <<>>)
  /\ ledger' = IF cache_db # <<>> THEN cache_db[1] ELSE <<>>
  /\ rl_pc' = "idle"
  /\ wake_at' = 0
  /\ UNCHANGED <<cache_db, max_calls, window_seconds, now, acquired>>
  /\ UNCHANGED <<store_vars, run_vars, split_vars, bf_vars, fw_vars, mp_vars, ext_vars>>

\* "Fetch directors for relevant companies": the script calls acquire().
JobAcquire ==
  /\ job_pc = "running"
  /\ Len(acquired) < MaxJobCalls
  /\ Acquire

\* "Save rate_limiter.db to cache" and the end of the job: actions/cache
\* saves the file under the key only when the key had no entry; an existing
\* entry is never replaced, and there is no file to save before the first
\* acquire() of a job that started without one.  The runner and its files are
\* gone after the job.
JobEnd ==
  /\ job_pc = "running"
  /\ job_pc' = "none"
  /\ cache_db' = IF cache_db = <<>> /\ ledger # <<>> THEN <<ledger>> ELSE cache_db
  /\ cache_hit' = FALSE
  /\ ledger' = <<>>
  /\ rl_pc' = "idle"
  /\ wake_at' = 0
  /\ UNCHANGED <<max_calls, window_seconds, now, acquired>>
  /\ UNCHANGED <<store_vars, run_vars, split_vars, bf_vars, fw_vars, mp_vars, ext_vars>>

StoresInit ==
  /\ canonical_store = EmptyMap
  /\ unresolved_index = EmptyMap

RunInit ==
  /\ remote = [id \in IDs |-> RemoteAnswers(id)]
  /\ phase = "idle"
  /\ manifest = NoManifest
  /\ shards = <<>>
  /\ partial_stores = <<>>
  /\ delivered = <<>>

SplitInit ==
  /\ split_pc = "idle"
  /\ split_in = [total |-> 0, chunks |-> 1]
  /\ split_out = [chunk_list |-> <<>>, chunk_count |-> 0]
  /\ slices = EmptyMap
  /\ split_limit = NoLimit

BackfillInit ==
  /\ bf_pc = "idle"
  /\ bf_range = [lo |-> 1, hi |-> 1]
  /\ bf_page = 1
  /\ progress = [processed |-> 0, total |-> 0]
  /\ bf_base = EmptyMap
  /\ bf_resumed = FALSE

LimiterIdle ==
  /\ now = 0
  /\ ledger = <<>>
  /\ rl_pc = "idle"
  /\ wake_at = 0
  /\ acquired = <<>>

LimiterInit ==
  /\ max_calls = 1
  /\ window_seconds = 1
  /\ LimiterIdle

WorkerInit ==
  /\ thread_count = 1
  /\ fw_pc = EmptyMap
  /\ fw_items = EmptyMap
  /\ fw_kind = EmptyMap

CallersInit ==
  /\ global_max_calls = 0
  /\ c_max = <<>>
  /\ c_file = <<>>
  /\ c_ledger = <<>>
  /\ c_pc = <<>>
  /\ c_local = <<>>
  /\ c_wake = <<>>
  /\ c_acquired = <<>>

JobInit ==
  /\ job_pc = "none"
  /\ cache_db = <<>>
  /\ cache_hit = FALSE

GatedIdle ==
  /\ g_next = 1
  /\ g_item = <<>>
  /\ g_tries = <<>>
  /\ g_calls = <<>>

OrderIdle ==
  /\ o_base = <<>>
  /\ o_order = <<>>
  /\ o_calls = 0

DashboardIdle ==
  /\ u_page = "site"
  /\ u_disabled = <<>>
  /\ u_dataset = FALSE
  /\ u_clicks = 0
  /\ u_pending = <<>>
  /\ u_polls = {}
  /\ u_shown = <<>>
  /\ u_run_of = <<>>
  /\ u_announced = {}
  /\ s_status = <<>>
  /\ s_queued = <<>>
  /\ s_runs = 0

HandlerIdle ==
  /\ h_file = "none"
  /\ h_event = <<>>
  /\ h_token = FALSE
  /\ h_pc = "idle"
  /\ h_response = 0
  /\ h_dispatches = 0
  /\ h_github = "none"

ExtInit == GatedIdle /\ OrderIdle /\ DashboardIdle /\ HandlerIdle

Init ==
  /\ StoresInit /\ RunInit /\ SplitInit /\ BackfillInit /\ LimiterInit
  /\ WorkerInit /\ CallersInit /\ JobInit /\ ExtInit

Next ==
  \/ \E m \in Manifests : StartRun(m)
  \/ \E k \in 1..MaxChunks, id \in IDs, o \in Outcomes : Fetch(k, id, o)
  \/ \E n \in 1..MaxChunks : \E c \in Deliveries(n) : \E d \in GlobOrders(c) : Merge(c, d)
  \/ \E n \in 1..MaxChunks : \E c \in Deliveries(n) : \E d \in GlobOrders(c) : ReMerge(c, d)
  \/ EndRun

Spec == Init /\ [][Next]_vars

NextSplit ==
  \/ \E total \in 0..MaxTotal, n \in 1..MaxChunks + 1 : SplitJob(total, n)
  \/ \E offset \in 0..MaxTotal : TakeSlice(offset)

SpecSplit == Init /\ [][NextSplit]_vars

\* One RateLimiter, constructed with max_calls and window_seconds.
InitLimiter ==
  /\ StoresInit /\ RunInit /\ SplitInit /\ BackfillInit
  /\ WorkerInit /\ CallersInit /\ JobInit /\ ExtInit
  /\ max_calls \in 1..MaxCallsBound
  /\ window_seconds \in 1..MaxWindow
  /\ LimiterIdle

NextLimiter == Acquire \/ Tick

SpecLimiter == InitLimiter /\ [][NextLimiter]_vars

\* Backfill over a listing whose answers do not change: every ID has one
\* answer, and the CanonicalStore holds what earlier runs left in it.
PossibleStores ==
  UNION {{c \in [S -> Payloads] :
            \A id \in S : [tag |-> "Success", payload |-> c[id]] \in RemoteAnswers(id)} :
         S \in SUBSET IDs}

InitBackfill ==
  /\ canonical_store \in PossibleStores
  /\ unresolved_index = EmptyMap
  /\ remote \in [IDs -> {{o} : o \in Outcomes}]
  /\ \A id \in IDs : remote[id] \subseteq RemoteAnswers(id)
  /\ phase = "idle"
  /\ manifest = NoManifest
  /\ shards = <<>>
  /\ partial_stores = <<>>
  /\ delivered = <<>>
  /\ SplitInit /\ BackfillInit /\ LimiterInit
  /\ WorkerInit /\ CallersInit /\ JobInit /\ ExtInit

NextBackfill ==
  \/ \E r \in DateRanges : StartBackfill(r)
  \/ NextBatch
  \/ \E id \in IDs, o \in Outcomes : Fetch(1, id, o)
  \/ \E c \in Deliveries(1) : \E d \in GlobOrders(c) : Merge(c, d)
  \/ BatchDone
  \/ Interrupt

SpecBackfill == InitBackfill /\ [][NextBackfill]_vars

\* Runs in modes all, only_missing and retry_failed only.
NextNoFresh ==
  \/ \E m \in Manifests : m.mode # "fresh" /\ StartRun(m)
  \/ \E k \in 1..MaxChunks, id \in IDs, o \in Outcomes : Fetch(k, id, o)
  \/ \E n \in 1..MaxChunks : \E c \in Deliveries(n) : \E d \in GlobOrders(c) : Merge(c, d)
  \/ \E n \in 1..MaxChunks : \E c \in Deliveries(n) : \E d \in GlobOrders(c) : ReMerge(c, d)
  \/ EndRun

SpecNoFresh == Init /\ [][NextNoFresh]_vars

\* One run whose shard processes are followed call by call.
InitWorker ==
  /\ StoresInit /\ RunInit /\ SplitInit /\ BackfillInit /\ LimiterInit
  /\ CallersInit /\ JobInit /\ ExtInit
  /\ thread_count \in 1..MaxThreads
  /\ fw_pc = EmptyMap
  /\ fw_items = EmptyMap
  /\ fw_kind = EmptyMap

NextWorker ==
  \/ \E m \in Manifests : StartRun(m)
  \/ \E k \in 1..MaxChunks : WorkerStart(k)
  \/ \E k \in 1..MaxChunks, id \in IDs, resp \in Responses : WorkerCall(k, id, resp)
  \/ \E k \in 1..MaxChunks : WorkerDone(k)
  \/ \E n \in 1..MaxChunks : \E c \in Deliveries(n) : \E d \in GlobOrders(c) : WorkerMerge(c, d)
  \/ \E n \in 1..MaxChunks : \E c \in Deliveries(n) : \E d \in GlobOrders(c) : ReMerge(c, d)

SpecWorker == InitWorker /\ [][NextWorker]_vars

\* The fetch jobs as the jobs of one workflow matrix.
NextMatrix ==
  \/ NextWorker
  \/ MatrixFailFast

SpecMatrix == InitWorker /\ [][NextMatrix]_vars

\* A run of count shard processes, each with its own ledger file and the
\* budget the fetch job computes from the chunk count.
ShardProcesses(global, count) ==
  /\ global_max_calls = global
  /\ c_max = [p \in 1..count |-> PerShardBudget(global, count)]
  /\ c_file = [p \in 1..count |-> p]
  /\ c_ledger = [p \in 1..count |-> <<>>]
  /\ c_pc = [p \in 1..count |-> "idle"]
  /\ c_local = [p \in 1..count |-> <<>>]
  /\ c_wake = [p \in 1..count |-> 0]
  /\ c_acquired = [p \in 1..count |-> <<>>]

InitShards ==
  /\ StoresInit /\ RunInit /\ SplitInit /\ BackfillInit /\ WorkerInit /\ JobInit /\ ExtInit
  /\ max_calls = 1
  /\ window_seconds \in 1..MaxWindow
  /\ LimiterIdle
  /\ \E global \in 1..MaxGlobalCalls, count \in 1..NumCallers :
       ShardProcesses(global, count)

NextCallers ==
  \/ \E p \in 1..NumCallers : CallerLoad(p)
  \/ \E p \in 1..NumCallers : CallerCheck(p)
  \/ Tick

SpecShards == InitShards /\ [][NextCallers]_vars

\* Jobs of the Fetch Directors workflow, one after the other.
NextRestart == JobStart \/ JobAcquire \/ JobEnd \/ Tick

SpecRestart == InitLimiter /\ [][NextRestart]_vars

\* The chunked workflow started with a limit input.
InitSplitLimit ==
  /\ StoresInit /\ RunInit /\ BackfillInit /\ LimiterInit
  /\ WorkerInit /\ CallersInit /\ JobInit /\ ExtInit
  /\ split_pc = "idle"
  /\ split_in = [total |-> 0, chunks |-> 1]
  /\ split_out = [chunk_list |-> <<>>, chunk_count |-> 0]
  /\ slices = EmptyMap
  /\ split_limit \in 1..MaxLimit

SpecSplitLimit == InitSplitLimit /\ [][NextSplit]_vars

\* Several callers of acquire() on one ledger file: the threads of one
\* FetchWorker, or scripts that share the file.
CallersOnOneLedger(m) ==
  /\ global_max_calls = m
  /\ c_max = [p \in 1..NumCallers |-> m]
  /\ c_file = [p \in 1..NumCallers |-> 1]
  /\ c_ledger = <<<<>>>>
  /\ c_pc = [p \in 1..NumCallers |-> "idle"]
  /\ c_local = [p \in 1..NumCallers |-> <<>>]
  /\ c_wake = [p \in 1..NumCallers |-> 0]
  /\ c_acquired = [p \in 1..NumCallers |-> <<>>]

InitThreads ==
  /\ StoresInit /\ RunInit /\ SplitInit /\ BackfillInit /\ WorkerInit /\ JobInit /\ ExtInit
  /\ max_calls = 1
  /\ window_seconds \in 1..MaxWindow
  /\ LimiterIdle
  /\ \E m \in 1..MaxCallsBound : CallersOnOneLedger(m)

NextThreads ==
  \/ \E p \in 1..NumCallers : Len(c_acquired[p]) < MaxCallerCalls /\ CallerLoad(p)
  \/ \E p \in 1..NumCallers : CallerCheck(p)
  \/ Tick

SpecThreads == InitThreads /\ [][NextThreads]_vars

\* The merge of the PartialStores of one run, started from any stores: the
\* PartialStores hold disjoint sets of IDs, each ID with one of the answers
\* the remote API may give.
PossibleUnresolved ==
  UNION {[S -> {[kind |-> "Error", attempts |-> 1]}] : S \in SUBSET IDs}

BaseStores ==
  {b \in PossibleStores \X PossibleUnresolved :
     (DOMAIN b[1] \cup DOMAIN b[2]) \subseteq 1..MaxBaseID}

DisjointStores(n) ==
  {ps \in [1..n -> UNION {[S -> Outcomes] : S \in SUBSET IDs}] :
     /\ \A j, k \in 1..n : j # k => DOMAIN ps[j] \cap DOMAIN ps[k] = {}
     /\ \A k \in 1..n : \A id \in DOMAIN ps[k] : ps[k][id] \in RemoteAnswers(id)}

InitOrder ==
  /\ \E b \in BaseStores : canonical_store = b[1] /\ unresolved_index = b[2]
  /\ remote = [id \in IDs |-> RemoteAnswers(id)]
  /\ phase = "fetching"
  /\ manifest = NoManifest
  /\ partial_stores \in DisjointStores(MaxChunks)
  /\ shards = [k \in DOMAIN partial_stores |-> SortedSeq(DOMAIN partial_stores[k])]
  /\ delivered = [k \in DOMAIN partial_stores |-> 0]
  /\ o_base = <<canonical_store, unresolved_index>>
  /\ o_order = <<>>
  /\ o_calls = 0
  /\ SplitInit /\ BackfillInit /\ LimiterInit
  /\ WorkerInit /\ CallersInit /\ JobInit /\ GatedIdle /\ DashboardIdle
  /\ HandlerIdle

NextOrder ==
  \/ \E d \in [1..MaxChunks -> 1..MaxChunks] : MergeInOneCall(d)
  \/ \E k \in 1..MaxChunks : MergeSeparately(k)

SpecOrder == InitOrder /\ [][NextOrder]_vars

\* The dashboard as loaded in a browser, and the backfill runs it starts.
InitDashboard ==
  /\ StoresInit /\ RunInit /\ SplitInit /\ BackfillInit /\ LimiterInit
  /\ WorkerInit /\ CallersInit /\ JobInit /\ GatedIdle /\ OrderIdle /\ HandlerIdle
  /\ u_page \in {"site", "docs"}
  /\ u_disabled = [b \in Buttons |-> InitiallyDisabled(u_page, b)]
  /\ u_dataset = FALSE
  /\ u_clicks = 0
  /\ u_pending = [b \in Buttons |-> <<>>]
  /\ u_polls = {}
  /\ u_shown = <<>>
  /\ u_run_of = <<>>
  /\ u_announced = {}
  /\ s_status = <<>>
  /\ s_queued = <<>>
  /\ s_runs = 0

NextDashboard ==
  \/ \E complete \in BOOLEAN : PickRange(complete)
  \/ ClickBackfill
  \/ ClickDirectors
  \/ \E b \in Buttons, i \in 1..(2 * MaxClicks), ok \in BOOLEAN : Respond(b, i, ok)
  \/ \E total \in 1..MaxRunTotal : RunBegin(total)
  \/ RunBatch
  \/ \E c \in 1..MaxClicks : PollBackfillStatus(c)

SpecDashboard == InitDashboard /\ [][NextDashboard]_vars

\* One invocation of a Netlify function, for every request and environment.
InitHandler ==
  /\ StoresInit /\ RunInit /\ SplitInit /\ BackfillInit /\ LimiterInit
  /\ WorkerInit /\ CallersInit /\ JobInit /\ GatedIdle /\ OrderIdle /\ DashboardIdle
  /\ h_file \in {"backfill.js", "trigger-fetch-directors.js"}
  /\ h_event \in [httpMethod : Methods, body : Bodies]
  /\ h_token \in BOOLEAN
  /\ h_pc = "received"
  /\ h_response = 0
  /\ h_dispatches = 0
  /\ h_github = "none"

NextHandler ==
  \/ Invoke
  \/ \E outcome \in {"accepted", "rejected", "network_error"} : GitHubAnswers(outcome)

SpecHandler == InitHandler /\ [][NextHandler]_vars

\* One FetchWorker whose threads share the shard's RateLimiter.
InitGated ==
  /\ StoresInit /\ RunInit /\ SplitInit /\ BackfillInit /\ WorkerInit /\ JobInit
  /\ max_calls = 1
  /\ window_seconds \in 1..MaxWindow
  /\ LimiterIdle
  /\ \E m \in 1..MaxCallsBound : CallersOnOneLedger(m)
  /\ g_next = 1
  /\ g_item = [p \in 1..NumCallers |-> 0]
  /\ g_tries = [p \in 1..NumCallers |-> 0]
  /\ g_calls = [p \in 1..NumCallers |-> <<>>]
  /\ OrderIdle /\ DashboardIdle /\ HandlerIdle

NextGated ==
  \/ \E p \in 1..NumCallers : GatedTake(p)
  \/ \E p \in 1..NumCallers : GatedLoad(p)
  \/ \E p \in 1..NumCallers : GatedCheck(p)
  \/ \E p \in 1..NumCallers, resp \in {"ok", "transient"} : RemoteCall(p, resp)
  \/ GatedTick

SpecGated == InitGated /\ [][NextGated]_vars

\* ================================================================ claims
AssignedIDs == UNION {Range(shards[k]) : k \in DOMAIN shards}
FetchedIDs == UNION {DOMAIN partial_stores[k] : k \in DOMAIN partial_stores}

\* The outcome the run recorded for id, read from the shard that holds it.
OutcomeOf(id) ==
  partial_stores[CHOOSE k \in DOMAIN partial_stores : id \in DOMAIN partial_stores[k]][id]

RunSuccessIDs == {id \in FetchedIDs : OutcomeOf(id).tag = "Success"}
RunFailedIDs == {id \in FetchedIDs : OutcomeOf(id).tag # "Success"}

\* A step of the merge job or of a repeated merge.
MergeStep == phase \in {"fetching", "merged"} /\ phase' = "merged" /\ delivered' # <<>>

AllSlicesTaken ==
  split_pc = "split" /\ DOMAIN slices = Range(split_out.chunk_list)

C2_ReMergeChangesNothing ==
  [][(phase = "merged" /\ phase' = "merged") =>
       (canonical_store' = canonical_store /\ unresolved_index' = unresolved_index)]_vars

\* C3: in every interval of window_seconds seconds, at most max_calls calls
\* have been let through by acquire().
CallsIn(t1, t2) ==
  Cardinality({i \in DOMAIN acquired : t1 <= acquired[i] /\ acquired[i] <= t2})

C4_RetryFailedScope ==
  (phase = "fetching" /\ manifest.mode = "retry_failed") =>
    /\ AssignedIDs = {id \in Range(manifest.input) : id \in DOMAIN unresolved_index}
    /\ AssignedIDs \cap DOMAIN canonical_store = {}

\* C5: when a backfill of a range ends, the CanonicalStore is the one a
\* single run over the whole listing of the range leaves, also when the
\* invocation that ended re-ran an interrupted one.
TheAnswer(id) == CHOOSE o \in remote[id] : TRUE

UninterruptedRun(base, r) ==
  [id \in DOMAIN base \cup {x \in Range(Listing(r)) : TheAnswer(x).tag = "Success"} |->
     IF id \in Range(Listing(r)) /\ TheAnswer(id).tag = "Success"
     THEN TheAnswer(id).payload ELSE base[id]]

C5_ResumedBackfillSameStore ==
  bf_pc = "done" => canonical_store = UninterruptedRun(bf_base, bf_range)

\* a re-run of an interrupted backfill has ended; the interrupted one had
\* merged a batch, and the range has an ID whose payload replaced an older one
C5_Witness ==
  /\ bf_pc = "done"
  /\ bf_resumed
  /\ Len(Listing(bf_range)) >= 2
  /\ \E id \in Range(Listing(bf_range)) :
       id \in DOMAIN bf_base /\ canonical_store[id] # bf_base[id]
  /\ \E id \in DOMAIN unresolved_index : unresolved_index[id].attempts = 2

\* C6: the CanonicalStore entry of an ID changes in a step only if the
\* PartialStores being merged hold a Success outcome for that ID.
EntryChanged(id) ==
  \/ (id \in DOMAIN canonical_store) # (id \in DOMAIN canonical_store')
  \/ /\ id \in DOMAIN canonical_store
     /\ id \in DOMAIN canonical_store'
     /\ canonical_store[id] # canonical_store'[id]

SharedID(c) == \E k \in DOMAIN c : c[k] > 1 /\ shards[k] # <<>>

C7_ConflictLeavesStores ==
  [][(MergeStep /\ SharedID(delivered')) =>
       (canonical_store' = canonical_store /\ unresolved_index' = unresolved_index)]_vars

\* C8: in a run of mode all, only_missing or retry_failed, no ID with a
\* payload in CanonicalStore is in a shard or fetched.
C8_NoRefetchOfSuccess ==
  (phase = "fetching" /\ manifest.mode \in {"all", "only_missing", "retry_failed"}) =>
    /\ AssignedIDs \cap DOMAIN canonical_store = {}
    /\ FetchedIDs \cap DOMAIN canonical_store = {}

C8_Witness ==
  /\ phase = "fetching"
  /\ manifest.mode = "all"
  /\ \E id \in Range(manifest.input) : id \in DOMAIN canonical_store
  /\ FetchedIDs # {}

C10_DuplicateDelivery ==
  [][(MergeStep /\ SharedID(delivered')) =>
       /\ canonical_store' =
            UpsertCanonical(canonical_store, MergeMainShards(partial_stores))
       /\ unresolved_index' =
            UpsertUnresolved(unresolved_index, MergeMainShards(partial_stores))]_vars

C10_Witness ==
  /\ phase = "merged"
  /\ SharedID(delivered)
  /\ Len(shards) >= 2
  /\ RunSuccessIDs # {}
  /\ RunFailedIDs # {}
C12_NoWorkItemSkipped ==
  \A k \in DOMAIN fw_pc :
    fw_pc[k] \in {"done", "aborted"} =>
      /\ DOMAIN fw_items[k] = Range(shards[k])
      /\ DOMAIN partial_stores[k] = Range(shards[k])
\* C13: with count shard processes, each limited to floor(global / count)
\* calls per window on its own ledger, every interval of window_seconds
\* seconds holds at most global calls of all shards together.
CallsOf(p, t1, t2) ==
  Cardinality({i \in DOMAIN c_acquired[p] :
                 t1 <= c_acquired[p][i] /\ c_acquired[p][i] <= t2})

RECURSIVE AllCalls(_, _, _)
AllCalls(n, t1, t2) ==
  IF n = 0 THEN 0 ELSE CallsOf(n, t1, t2) + AllCalls(n - 1, t1, t2)

C13_AggregateBudgetBound ==
  \A t \in 0..MaxTime :
    AllCalls(Len(c_acquired), t, t + window_seconds) <= global_max_calls

\* two shards that started at different times have both used their budget
\* in one window and gone on after a sleep
C13_Witness ==
  /\ Len(c_acquired) = 2
  /\ global_max_calls = 3
  /\ \E t \in 0..MaxTime : AllCalls(2, t, t + window_seconds) = 2
  /\ c_acquired[1] # <<>> /\ c_acquired[2] # <<>>
  /\ c_acquired[1][1] # c_acquired[2][1]
  /\ Len(c_acquired[1]) >= 2 /\ Len(c_acquired[2]) >= 2
\* C14 (as claimed): a process started on the persisted ledger counts the
\* calls of the processes before it that are still in the window, and across
\* restarts no interval of window_seconds seconds holds more than max_calls
\* calls.
InWindow == {i \in DOMAIN acquired : acquired[i] >= now - window_seconds}

C14_BudgetAcrossRestart ==
  /\ job_pc = "running" =>
       Cardinality(InWindow) = Len(Prune(ledger, now, window_seconds))
  /\ \A t \in 0..MaxTime : CallsIn(t, t + window_seconds) <= max_calls
\* C15 (as claimed): the split of an empty candidate list ends without error
\* with zero chunks, and no worker takes a slice.
C15_EmptySplitIsValid ==
  (split_pc # "idle" /\ split_in.total = 0) =>
    /\ split_pc = "split"
    /\ split_out = [chunk_list |-> <<>>, chunk_count |-> 0]
    /\ slices = EmptyMap
\* C16 (as claimed): the numbers of WorkItems in any two slices of one split
\* differ by at most one.
C16_SliceSizesBalanced ==
  \A o1, o2 \in DOMAIN slices : Len(slices[o1]) - Len(slices[o2]) <= 1
\* C17 (as claimed): with a limit, the IDs the workers of one split take are
\* together the first min(limit, total) IDs of the candidate list.
C17_LimitBeforePartition ==
  (AllSlicesTaken /\ split_limit # NoLimit) =>
    UNION {Range(slices[o]) : o \in DOMAIN slices} =
      1..Min(split_limit, split_in.total)
\* C18: in a backfill invocation processed_count starts at 0, never
\* decreases, never exceeds total_count, and equals total_count only once the
\* last batch of the range has been merged and every ID of the range is in a
\* store.
NewInvocation == bf_pc # "running" /\ bf_pc' = "running"

C18_ProgressCounts ==
  [][/\ NewInvocation => progress'.processed = 0
     /\ ~NewInvocation => progress'.processed >= progress.processed
     /\ progress'.processed <= progress'.total
     /\ (bf_pc' # "idle" /\ progress'.processed = progress'.total) =>
          /\ bf_pc' = "done"
          /\ bf_page' = NumPages(bf_range') + 1
          /\ Range(Listing(bf_range')) \subseteq
               DOMAIN canonical_store' \cup DOMAIN unresolved_index']_vars

\* a re-run of an interrupted backfill of the whole listing has ended with
\* processed_count = total_count, some IDs of the range unresolved
C18_Witness ==
  /\ bf_pc = "done"
  /\ bf_resumed
  /\ progress.total = NumIDs
  /\ progress.processed = progress.total
  /\ unresolved_index # EmptyMap
C20_ConcurrentCallersBound ==
  /\ \A t \in 0..MaxTime :
       AllCalls(Len(c_acquired), t, t + window_seconds) <= global_max_calls
  /\ \A p \in DOMAIN c_acquired : \A i \in DOMAIN c_acquired[p] :
       c_acquired[p][i] >= now - window_seconds =>
         c_acquired[p][i] \in Range(c_ledger[c_file[p]])
\* C21: no WorkItem is fetched more than the attempt cap number of times; a
\* fetch that failed transiently that many times is recorded as
\* Error(kind=transient); and every remote call of a shard lowers the number
\* of calls the shard can still make, so FetchWorker.run ends.
CallsLeft(k, id) ==
  IF id \notin Range(shards[k]) THEN 0
  ELSE IF id \notin DOMAIN fw_items[k] THEN AttemptCap
  ELSE IF fw_items[k][id].finished THEN 0
  ELSE AttemptCap - fw_items[k][id].tries

RECURSIVE Remaining(_, _)
Remaining(k, n) ==
  IF n = 0 THEN 0 ELSE CallsLeft(k, n) + Remaining(k, n - 1)

C21_RetriesBounded ==
  [][\A k \in DOMAIN fw_pc' :
       /\ \A id \in DOMAIN fw_items'[k] :
            /\ fw_items'[k][id].tries <= AttemptCap
            /\ fw_items'[k][id].tries = AttemptCap => fw_items'[k][id].finished
            /\ fw_items'[k][id].finished => id \in DOMAIN partial_stores'[k]
       /\ (k \in DOMAIN fw_pc /\ fw_items'[k] # fw_items[k]) =>
            /\ Remaining(k, NumIDs)' < Remaining(k, NumIDs)
            /\ Remaining(k, NumIDs)' >= 0]_vars

\* a shard of two or more WorkItems has ended with every fetch retried up to
\* the cap and recorded as a transient Error
C21_Witness ==
  \E k \in DOMAIN fw_pc :
    /\ fw_pc[k] = "done"
    /\ Len(shards[k]) >= 2
    /\ \A id \in Range(shards[k]) :
         /\ fw_items[k][id].tries = AttemptCap
         /\ partial_stores[k][id].tag = "Error"
         /\ fw_kind[k][id] = "transient"
\* C22: when one shard process aborts on an authentication failure, no
\* sibling shard process is cancelled: a shard process that is no longer
\* running has ended on its own, and one that returned holds an outcome for
\* each of its WorkItems.
C22_SiblingsRunToEnd ==
  \A k \in DOMAIN fw_pc :
    /\ fw_pc[k] \in {"running", "done", "aborted"}
    /\ fw_pc[k] = "done" => DOMAIN partial_stores[k] = Range(shards[k])
\* C23: in every reachable state no ID is at the same time a key of
\* CanonicalStore and a member of UnresolvedIndex.
C23_StoresDisjoint ==
  DOMAIN canonical_store \cap DOMAIN unresolved_index = {}
\* C24 (as claimed): in a FetchWorker every remote call, retries included,
\* comes after its own completed acquire(), and every interval of
\* window_seconds seconds holds at most max_calls remote calls of the shard.
RemoteCallsOf(p, t1, t2) ==
  Cardinality({i \in DOMAIN g_calls[p] : t1 <= g_calls[p][i] /\ g_calls[p][i] <= t2})

RECURSIVE AllRemoteCalls(_, _, _)
AllRemoteCalls(n, t1, t2) ==
  IF n = 0 THEN 0 ELSE RemoteCallsOf(n, t1, t2) + AllRemoteCalls(n - 1, t1, t2)

C24_EveryCallGated ==
  /\ \A p \in DOMAIN g_calls :
       /\ Len(g_calls[p]) <= Len(c_acquired[p])
       /\ \A i \in DOMAIN g_calls[p] : c_acquired[p][i] <= g_calls[p][i]
  /\ \A t \in 0..MaxTime :
       AllRemoteCalls(Len(g_calls), t, t + window_seconds) <= global_max_calls
\* C25: the PartialStores of one run, pairwise disjoint in IDs, merged in one
\* merge call in any order of the list or in separate merge calls in any
\* sequence, leave the same CanonicalStore and the same UnresolvedIndex.
InListOrder(base) ==
  LET combined == MergeMainShards(partial_stores)
  IN <<UpsertCanonical(base[1], combined), UpsertUnresolved(base[2], combined)>>

C26_AcquireReturns ==
  \A p \in DOMAIN c_pc :
    /\ c_max[p] = PerShardBudget(global_max_calls, Len(c_pc))
    /\ c_pc[p] # "stuck"
\* C27 (as claimed): the dashboard announces completion, and enables the
\* button again, only for a click whose dispatch started a backfill run and
\* on reading the Progress record that run wrote.
C27_CompletionOfOwnRun ==
  \A a \in u_announced :
    /\ u_run_of[a.click] # 0
    /\ a.run = u_run_of[a.click]

\* C30 (as claimed): each button of the docs dashboard has at most one
\* dispatch request in flight.
C30_OneRequestInFlight ==
  u_page = "docs" => \A b \in DOMAIN u_pending : Len(u_pending[b]) <= 1
\* C28 (as claimed): a backfill handler sends a workflow dispatch only for a
\* POST request whose body is JSON with start_date and end_date both present
\* and non-empty; an OPTIONS request is answered 204, any other method 405,
\* and a POST with an unparsable body or a missing date 400, each without a
\* dispatch.
JSONTexts == {b \in Bodies : b.text \in {"object", "null", "7"}}

HasBothDates(body) ==
  /\ body \in ObjectBodies
  /\ body.start_date \notin {Undefined, ""}
  /\ body.end_date \notin {Undefined, ""}

Ended == h_pc \in {"returned", "threw"}

C28_DispatchOnlyForValidPost ==
  /\ h_dispatches > 0 =>
       /\ h_event.httpMethod = "POST"
       /\ h_event.body \in JSONTexts
       /\ HasBothDates(h_event.body)
  /\ Ended =>
       /\ h_event.httpMethod = "OPTIONS" => h_response = 204 /\ h_dispatches = 0
       /\ h_event.httpMethod \notin {"OPTIONS", "POST"} =>
            h_response = 405 /\ h_dispatches = 0
       /\ (h_event.httpMethod = "POST" /\ ~HasBothDates(h_event.body)) =>
            h_response = 400 /\ h_dispatches = 0

\* C29 (as claimed): every invocation of the backfill and
\* trigger-fetch-directors handlers ends by returning a response with a
\* status code, 200 only when GitHub accepted the dispatch; a missing token
\* or an exception thrown by the call to GitHub gives an error status.
C29_AlwaysAResponse ==
  Ended =>
    /\ h_pc = "returned"
    /\ h_response # 0
    /\ h_response = 200 => h_github = "accepted"
    /\ h_github = "network_error" => h_response >= 400
    /\ (h_dispatches > 0 /\ ~h_token) => h_response >= 400
====
